---- MODULE Spec2Model ----
(***************************************************************************)
(* Order fulfilment engine of the ERP: stock reservation under row locks,  *)
(* the order status state machine and the idempotency middleware.          *)
(*                                                                         *)
(* The relational store is modelled by its committed rows (stock,          *)
(* is_active, deleted, orders, history), one row lock per product and one  *)
(* buffer of uncommitted writes per open transaction.  Every request is    *)
(* handled by a worker whose pc is its position in the handler's code.     *)
(***************************************************************************)
EXTENDS Integers, Sequences, FiniteSets, TLC

\* ---------------------------------------------------------------- bounds
NWorkers == 2
NProducts == 2
MaxRequests == 3

\* ------------------------------------------------------ program constants
HTTP_200_OK == 200
HTTP_201_CREATED == 201
HTTP_404_NOT_FOUND == 404
HTTP_422_UNPROCESSABLE_ENTITY == 422
HTTP_500_INTERNAL_SERVER_ERROR == 500

Workers == 1..NWorkers
Products == 1..NProducts
\* a product id that names no row
MissingProduct == NProducts + 1
NoWorker == 0
NoKey == "none"
Keys == {"k1", "k2"}
NoWrite == -1

\* stock the products start with (test_stock_concurrency: 10 units)
InitStock == [p \in Products |-> IF p = 1 THEN 10 ELSE 5]
Quantities == {4, 8}

\* customers: 1 exists and is active, 2 exists and is inactive, 3 does not exist
Customers == {1, 2, 3}
CustomerExists(c) == c \in {1, 2}
CustomerActive(c) == c = 1

\* price (in cents), SKU and name the products start with
InitPrice == [p \in Products |-> IF p = 1 THEN 50 ELSE 20]
InitSku == [p \in Products |-> <<"SKU", p>>]
InitName == [p \in Products |-> "name"]
\* values update_product may be asked to write: a higher price, a zero price
\* (rejected by validate), a free SKU, a SKU already taken, another name
NewPrices == {0, 75}
NewSkus == {<<"SKU", 1>>, <<"SKU", 0>>}
NewNames == {"renamed"}

Item(p, q) == [product_id |-> p, quantity |-> q]
\* item lists a request may carry
ItemLists ==
    { <<>>,
      <<Item(1, 4)>>, <<Item(1, 8)>>, <<Item(2, 4)>>,
      <<Item(MissingProduct, 4)>>,
      <<Item(1, 4), Item(2, 4)>>,
      <<Item(1, 4), Item(2, 8)>>,
      <<Item(2, 4), Item(1, 8)>>,
      <<Item(1, 4), Item(1, 4)>>,
      <<Item(1, 8), Item(1, 4)>>,
      <<Item(1, 8), Item(MissingProduct, 4)>> }

\* ----------------------------------------------------- order state machine
PENDING == "pending"
CONFIRMED == "confirmed"
SEPARATED == "separated"
SHIPPED == "shipped"
DELIVERED == "delivered"
CANCELLED == "cancelled"
OrderStatus == {PENDING, CONFIRMED, SEPARATED, SHIPPED, DELIVERED, CANCELLED}

valid_transitions ==
    [s \in OrderStatus |->
        CASE s = PENDING   -> {CONFIRMED, CANCELLED}
          [] s = CONFIRMED -> {SEPARATED, CANCELLED}
          [] s = SEPARATED -> {SHIPPED}
          [] s = SHIPPED   -> {DELIVERED}
          [] s = DELIVERED -> {}
          [] s = CANCELLED -> {}]

\* the check reduced to "the order is not in a final status"
can_leave(current, new_status) == valid_transitions[current] # {}

can_transition_to(current, new_status) == new_status \in valid_transitions[current]

SixEdges ==
    { <<PENDING, CONFIRMED>>, <<PENDING, CANCELLED>>,
      <<CONFIRMED, SEPARATED>>, <<CONFIRMED, CANCELLED>>,
      <<SEPARATED, SHIPPED>>, <<SHIPPED, DELIVERED>> }

\* ------------------------------------------------------------------ state
VARIABLES
    stock,        \* products.stock_quantity, committed value per row
    is_active,    \* products.is_active
    deleted,      \* products.deleted_at is not null
    lock,         \* holder of the row lock of each product (SELECT FOR UPDATE)
    orders,       \* orders table: order id = index; status, items, deleted, key
    history,      \* order_history rows of each order, oldest first
    cache,        \* idempotency cache: key -> cached response or NoResponse
    events,       \* events handed to the event bus
    nreq,         \* number of requests received so far
    pc,           \* position of each worker in its handler
    req,          \* the request a worker is handling
    product_map,  \* create_order / cancel_order: locked product entities
    txWrites,     \* uncommitted update_stock writes of the worker's transaction
    idx,          \* create_order: index of the item the loop is at
    order,        \* update_status / cancel_order: entity read by get_order
    old_status,   \* OrderRepository.update_status: status read before the save
    resp,         \* the last response a worker returned
    admin,        \* ProductService.update_product in progress, or NoAdmin
    price,        \* products.price
    sku,          \* products.sku
    name          \* products.name

vars == <<stock, is_active, deleted, lock, orders, history, cache, events, nreq,
          pc, req, product_map, txWrites, idx, order, old_status, resp, admin,
          price, sku, name>>

\* the descriptive columns of the products
catalog == <<price, sku, name>>
dbVars == <<stock, is_active, deleted, orders, history, catalog>>
localVars == <<product_map, txWrites, idx, order, old_status>>

\* record fields are written in the order TLC keeps them in
NoResponse == [status |-> 0, error |-> "", message |-> <<>>, order_id |-> 0]
NoRequest == [new_status |-> "", order_id |-> 0, op |-> "none", key |-> NoKey,
              customer_id |-> 0, items |-> <<>>]
NoEntity == [is_active |-> FALSE, price |-> 0, sku |-> <<>>, name |-> "",
             present |-> FALSE, stock_quantity |-> 0]
NoOrder == [status |-> "", items |-> <<>>, found |-> FALSE]
NoAdmin == [product_id |-> 0, is_active |-> FALSE, price |-> 0, sku |-> <<>>,
            name |-> "", stock_quantity |-> 0]
EmptyMap == [p \in Products |-> NoEntity]
EmptyWrites == [p \in Products |-> NoWrite]

\* no request in progress, nothing cached, no lock held, the products as
\* they were registered
Quiet ==
    /\ lock = [p \in Products |-> NoWorker]
    /\ cache = [k \in Keys |-> NoResponse]
    /\ events = {}
    /\ nreq = 0
    /\ pc = [w \in Workers |-> "idle"]
    /\ req = [w \in Workers |-> NoRequest]
    /\ product_map = [w \in Workers |-> EmptyMap]
    /\ txWrites = [w \in Workers |-> EmptyWrites]
    /\ idx = [w \in Workers |-> 0]
    /\ order = [w \in Workers |-> NoOrder]
    /\ old_status = [w \in Workers |-> ""]
    /\ resp = [w \in Workers |-> NoResponse]
    /\ admin = NoAdmin
    /\ price = InitPrice
    /\ sku = InitSku
    /\ name = InitName

\* the catalogue seeded, every product active, no order yet
Init ==
    /\ stock = InitStock
    /\ is_active = [p \in Products |-> TRUE]
    /\ deleted = [p \in Products |-> FALSE]
    /\ orders = <<>>
    /\ history = <<>>
    /\ Quiet

\* as Init, but products other than the first may have been deactivated
InitCatalog ==
    /\ stock = InitStock
    /\ is_active \in {f \in [Products -> BOOLEAN] : f[1]}
    /\ deleted = [p \in Products |-> FALSE]
    /\ orders = <<>>
    /\ history = <<>>
    /\ Quiet

\* OrderItemEntity: the item of an order, with the product's SKU, name and
\* price copied at creation
OrderItemEntity(product_id, product_sku, product_name, quantity, unit_price) ==
    [product_id |-> product_id, quantity |-> quantity, product_sku |-> product_sku,
     product_name |-> product_name, unit_price |-> unit_price]
\* the item of an order placed while the products were as registered
Line(p, q) == OrderItemEntity(p, InitSku[p], InitName[p], q, InitPrice[p])

\* quantity the items of a list ask of product p (from item i on)
RECURSIVE QtyFrom(_, _, _)
QtyFrom(items, i, p) ==
    IF i > Len(items) THEN 0
    ELSE (IF items[i].product_id = p THEN items[i].quantity ELSE 0)
         + QtyFrom(items, i + 1, p)
QtyOf(items, p) == QtyFrom(items, 1, p)

\* the status paths an order can have gone through
Paths ==
    { <<PENDING>>, <<PENDING, CONFIRMED>>, <<PENDING, CANCELLED>>,
      <<PENDING, CONFIRMED, CANCELLED>>, <<PENDING, CONFIRMED, SEPARATED>>,
      <<PENDING, CONFIRMED, SEPARATED, SHIPPED>>,
      <<PENDING, CONFIRMED, SEPARATED, SHIPPED, DELIVERED>> }

HistoryOf(path) ==
    [i \in 1..Len(path) |->
        [from_status |-> IF i = 1 THEN "" ELSE path[i - 1], to_status |-> path[i]]]

\* one order was created earlier and taken along a path; a cancelled order
\* had its stock restored if it was cancelled by cancel_order and not if it
\* was cancelled by update_status
InitOrder ==
    /\ \E path \in Paths, items \in {<<Line(1, 4)>>, <<Line(1, 4), Line(2, 4)>>},
          restored \in BOOLEAN :
          /\ restored => path[Len(path)] = CANCELLED
          /\ orders = << [deleted |-> FALSE, status |-> path[Len(path)],
                          key |-> NoKey, items |-> items] >>
          /\ history = << HistoryOf(path) >>
          /\ stock = [p \in Products |->
                        IF restored THEN InitStock[p]
                        ELSE InitStock[p] - QtyOf(items, p)]
    /\ is_active = [p \in Products |-> TRUE]
    /\ deleted = [p \in Products |-> FALSE]
    /\ Quiet

\* ---------------------------------------------------------------- helpers
Min(S) == CHOOSE x \in S : \A y \in S : x <= y
Locked(w) == {p \in Products : lock[p] = w}
ItemProducts(items) == {items[i].product_id : i \in 1..Len(items)}

ErrorResponse(code, error) ==
    [status |-> code, error |-> error, message |-> <<>>, order_id |-> 0]

\* InvalidStateTransitionException as custom_exception_handler renders it: 422,
\* its code, and a message made of the current and the target status
InvalidStateTransitionException(current_status, target_status) ==
    [status |-> HTTP_422_UNPROCESSABLE_ENTITY, error |-> "invalid_state_transition",
     message |-> <<current_status, target_status>>, order_id |-> 0]

\* the writes of the failed attempt reach the rows (no transaction.atomic())
RollbackKeepsWrites(w) ==
    /\ stock' = [p \in Products |->
                    IF txWrites[w][p] # NoWrite THEN txWrites[w][p] ELSE stock[p]]
    /\ txWrites' = [txWrites EXCEPT ![w] = EmptyWrites]
    /\ lock' = [p \in Products |-> IF lock[p] = w THEN NoWorker ELSE lock[p]]

\* transaction.atomic() left by an exception: the uncommitted writes are
\* discarded and the row locks released
Rollback(w) ==
    /\ txWrites' = [txWrites EXCEPT ![w] = EmptyWrites]
    /\ lock' = [p \in Products |-> IF lock[p] = w THEN NoWorker ELSE lock[p]]
    /\ UNCHANGED stock

\* transaction.atomic() left normally: the writes become the committed rows
Commit(w, writes) ==
    /\ stock' = [p \in Products |->
                    IF writes[p] # NoWrite THEN writes[p] ELSE stock[p]]
    /\ txWrites' = [txWrites EXCEPT ![w] = EmptyWrites]
    /\ lock' = [p \in Products |-> IF lock[p] = w THEN NoWorker ELSE lock[p]]

\* the UPDATE filtering on is_active instead of deleted_at
stock_write_active(writes, product_id, new_quantity) ==
    [writes EXCEPT ![product_id] = IF is_active[product_id] THEN new_quantity ELSE @]

\* ProductRepository.update_stock: UPDATE ... WHERE id = product_id AND
\* deleted_at IS NULL, applied to the uncommitted writes of a transaction
stock_write(writes, product_id, new_quantity) ==
    [writes EXCEPT ![product_id] = IF ~deleted[product_id] THEN new_quantity ELSE @]

\* ProductRepository.update_stock inside the worker's transaction
update_stock(w, product_id, new_quantity) ==
    txWrites' = [txWrites EXCEPT ![w] = stock_write(@, product_id, new_quantity)]

\* the comparison dropped: any positive stock is taken to be enough
has_stock(product, quantity) == product.stock_quantity > 0

has_sufficient_stock(product, quantity) == product.stock_quantity >= quantity

deduct_stock(product, quantity) ==
    [product EXCEPT !.stock_quantity = @ - quantity]

\* the restored quantity is assigned instead of added
restore_stock_assign(product, quantity) ==
    [product EXCEPT !.stock_quantity = quantity]

restore_stock(product, quantity) ==
    [product EXCEPT !.stock_quantity = @ + quantity]

\* ------------------------------------------------- idempotency middleware
\* the exception leaves the view and the handler maps it to a response; the
\* middleware caches 2xx responses only, so the request ends here
Raise(w, code, error) ==
    /\ resp' = [resp EXCEPT ![w] = ErrorResponse(code, error)]
    /\ pc' = [pc EXCEPT ![w] = "idle"]

\* A request arrives at a free worker.
Begin(w, request, first) ==
    /\ pc[w] = "idle"
    /\ nreq < MaxRequests
    /\ req' = [req EXCEPT ![w] = request]
    /\ nreq' = nreq + 1
    /\ pc' = [pc EXCEPT ![w] = first]
    /\ resp' = [resp EXCEPT ![w] = NoResponse]
    /\ UNCHANGED <<dbVars, lock, cache, events, localVars, admin>>

CreateRequest(k, c, items) ==
    [new_status |-> "", order_id |-> 0, op |-> "create", key |-> k,
     customer_id |-> c, items |-> items]
CancelRequest(k, oid) ==
    [new_status |-> CANCELLED, order_id |-> oid, op |-> "cancel", key |-> k,
     customer_id |-> 0, items |-> <<>>]
StatusRequest(oid, target) ==
    [new_status |-> target, order_id |-> oid, op |-> "status", key |-> NoKey,
     customer_id |-> 0, items |-> <<>>]

\* POST /orders/ (OrderViewSet.create) with any customer, key and item list
BeginCreate(w) ==
    \E k \in Keys \cup {NoKey}, c \in Customers, items \in ItemLists :
        Begin(w, CreateRequest(k, c, items), "gate")

\* POST /orders/ of a valid customer without Idempotency-Key
BeginOrder(w) ==
    \E items \in ItemLists : Begin(w, CreateRequest(NoKey, 1, items), "gate")

\* POST /orders/ with or without an Idempotency-Key, single-item orders
BeginKeyed(w) ==
    \E k \in Keys \cup {NoKey}, items \in {<<Item(1, 4)>>, <<Item(1, 8)>>} :
        Begin(w, CreateRequest(k, 1, items), "gate")

\* POST /orders/ of a valid customer for products on sale, one or two items
BeginPriced(w) ==
    \E items \in {<<Item(1, 4)>>, <<Item(1, 4), Item(2, 4)>>, <<Item(1, 8), Item(1, 4)>>} :
        Begin(w, CreateRequest(NoKey, 1, items), "gate")

\* POST /orders/ for both products, named in either order
BeginBoth(w) ==
    \E items \in {<<Item(1, 4), Item(2, 4)>>, <<Item(2, 4), Item(1, 4)>>} :
        Begin(w, CreateRequest(NoKey, 1, items), "gate")

\* POST /orders/ of a valid customer with two items of which one or both
\* fail a check: short of stock, inactive (product 2 may be), or no such row
BeginMixed(w) ==
    \E items \in {<<Item(2, 8), Item(MissingProduct, 4)>>,
                   <<Item(MissingProduct, 4), Item(2, 8)>>,
                   <<Item(2, 4), Item(MissingProduct, 4)>>,
                   <<Item(2, 8), Item(1, 4)>>,
                   <<Item(1, 4), Item(2, 8)>>,
                   <<Item(1, 4), Item(2, 4)>>} :
        Begin(w, CreateRequest(NoKey, 1, items), "gate")

\* create_order called for any customer, with one item or with no item
BeginCustomer(w) ==
    \E c \in Customers, items \in {<<>>, <<Item(1, 4)>>} :
        Begin(w, CreateRequest(NoKey, c, items), "gate")

\* POST /orders/ of a valid customer for product 1 alone or together with
\* product 2 or with a product that has no row
BeginGone(w) ==
    \E items \in {<<Item(1, 4)>>,
                   <<Item(1, 4), Item(2, 4)>>,
                   <<Item(2, 4), Item(1, 4)>>,
                   <<Item(1, 4), Item(MissingProduct, 4)>>} :
        Begin(w, CreateRequest(NoKey, 1, items), "gate")

\* order ids a request may name: the existing ones and one that is absent
OrderIds == 1..(Len(orders) + 1)

\* PATCH /orders/{id}/status/ (OrderViewSet.update_status): not a POST, the
\* middleware passes it through
BeginStatus(w) ==
    \E oid \in OrderIds, target \in OrderStatus :
        Begin(w, StatusRequest(oid, target), "us_read")

\* POST /orders/{id}/cancel/ (OrderViewSet.cancel)
BeginCancel(w) ==
    \E oid \in OrderIds : Begin(w, CancelRequest(NoKey, oid), "gate")

\* POST /orders/{id}/cancel/ sent with an Idempotency-Key header
BeginKeyedCancel(w) ==
    \E oid \in OrderIds, k \in Keys : Begin(w, CancelRequest(k, oid), "gate")

\* the customer is looked up but customer.is_active is not checked
CreateValidateNoActive(w) ==
    LET c == req[w].customer_id
    IN  IF ~CustomerExists(c)
        THEN Raise(w, HTTP_404_NOT_FOUND, "not_found")
        ELSE IF req[w].items = <<>>
        THEN Raise(w, HTTP_422_UNPROCESSABLE_ENTITY, "business_rule_violation")
        ELSE /\ pc' = [pc EXCEPT ![w] = "lock"]
             /\ UNCHANGED resp

\* OrderService.create_order lines 57-77: customer and item-list checks, then
\* transaction.atomic() is entered
CreateValidate(w) ==
    LET c == req[w].customer_id
    IN  IF ~CustomerExists(c)
        THEN Raise(w, HTTP_404_NOT_FOUND, "not_found")
        ELSE IF ~CustomerActive(c) \/ req[w].items = <<>>
        THEN Raise(w, HTTP_422_UNPROCESSABLE_ENTITY, "business_rule_violation")
        ELSE /\ pc' = [pc EXCEPT ![w] = "lock"]
             /\ UNCHANGED resp

\* the entry of any key answers a keyed request
GateAnyEntry(w) ==
    /\ pc[w] = "gate"
    /\ LET k == req[w].key
           hits == {j \in Keys : cache[j] # NoResponse}
       IN  IF k # NoKey /\ hits # {}
           THEN /\ resp' = [resp EXCEPT ![w] = cache[CHOOSE j \in hits : TRUE]]
                /\ pc' = [pc EXCEPT ![w] = "idle"]
           ELSE IF req[w].op = "create"
           THEN CreateValidate(w)
           ELSE /\ pc' = [pc EXCEPT ![w] = "c_read"]
                /\ UNCHANGED resp
    /\ UNCHANGED <<dbVars, lock, cache, events, nreq, req, localVars, admin>>

\* a hit answers 200 with the cached payload, whatever the cached status
GateHitOk(w) ==
    /\ pc[w] = "gate"
    /\ LET k == req[w].key
       IN  IF k # NoKey /\ cache[k] # NoResponse
           THEN /\ resp' = [resp EXCEPT ![w] = [cache[k] EXCEPT !.status = HTTP_200_OK]]
                /\ pc' = [pc EXCEPT ![w] = "idle"]
           ELSE IF req[w].op = "create"
           THEN CreateValidate(w)
           ELSE /\ pc' = [pc EXCEPT ![w] = "c_read"]
                /\ UNCHANGED resp
    /\ UNCHANGED <<dbVars, lock, cache, events, nreq, req, localVars, admin>>

\* the key is remembered for as long as an order created under it exists: a
\* request whose cache entry is gone is answered with that order
GateRemembersOrders(w) ==
    /\ pc[w] = "gate"
    /\ LET k == req[w].key
           made == {o \in 1..Len(orders) : orders[o].key = k}
       IN  IF k # NoKey /\ cache[k] # NoResponse
           THEN /\ resp' = [resp EXCEPT ![w] = cache[k]]
                /\ pc' = [pc EXCEPT ![w] = "idle"]
           ELSE IF k # NoKey /\ made # {}
           THEN /\ resp' = [resp EXCEPT ![w] =
                               [status |-> HTTP_201_CREATED, error |-> "",
                                message |-> <<>>,
                                order_id |-> CHOOSE o \in made : \A q \in made : o <= q]]
                /\ pc' = [pc EXCEPT ![w] = "idle"]
           ELSE IF req[w].op = "create"
           THEN CreateValidate(w)
           ELSE /\ pc' = [pc EXCEPT ![w] = "c_read"]
                /\ UNCHANGED resp
    /\ UNCHANGED <<dbVars, lock, cache, events, nreq, req, localVars, admin>>

\* the entry is taken for a hit only when it was stored by the same endpoint
\* (creation answers 201, cancellation 200)
GatePerPath(w) ==
    /\ pc[w] = "gate"
    /\ LET k == req[w].key
       IN  IF /\ k # NoKey /\ cache[k] # NoResponse
              /\ (cache[k].status = HTTP_201_CREATED) = (req[w].op = "create")
           THEN /\ resp' = [resp EXCEPT ![w] = cache[k]]
                /\ pc' = [pc EXCEPT ![w] = "idle"]
           ELSE IF req[w].op = "create"
           THEN CreateValidate(w)
           ELSE /\ pc' = [pc EXCEPT ![w] = "c_read"]
                /\ UNCHANGED resp
    /\ UNCHANGED <<dbVars, lock, cache, events, nreq, req, localVars, admin>>

\* IdempotencyMiddleware.__call__ up to get_response: the cache lookup; on a
\* miss the view runs (for a creation, up to the start of the transaction)
Gate(w) ==
    /\ pc[w] = "gate"
    /\ LET k == req[w].key
       IN  IF k # NoKey /\ cache[k] # NoResponse
           THEN /\ resp' = [resp EXCEPT ![w] = cache[k]]
                /\ pc' = [pc EXCEPT ![w] = "idle"]
           ELSE IF req[w].op = "create"
           THEN CreateValidate(w)
           ELSE /\ pc' = [pc EXCEPT ![w] = "c_read"]
                /\ UNCHANGED resp
    /\ UNCHANGED <<dbVars, lock, cache, events, nreq, req, localVars, admin>>

\* a request without Idempotency-Key is cached under the first key
CacheSetAnyKey(w, response) ==
    LET k == IF req[w].key = NoKey THEN "k1" ELSE req[w].key
    IN  cache' = IF 200 <= response.status /\ response.status < 300
                 THEN [cache EXCEPT ![k] = response]
                 ELSE cache

\* every response of a keyed request is cached, failures included
CacheSetAlways(w, response) ==
    LET k == req[w].key
    IN  cache' = IF k # NoKey THEN [cache EXCEPT ![k] = response] ELSE cache

\* IdempotencyMiddleware.__call__ lines 59-76: cache a 2xx response
CacheSet(w, response) ==
    LET k == req[w].key
    IN  cache' = IF k # NoKey /\ 200 <= response.status /\ response.status < 300
                 THEN [cache EXCEPT ![k] = response]
                 ELSE cache

\* ----------------------------------------------- OrderService.create_order
\* the rows locked one at a time in the order the items name them (no
\* order_by("id")): the next row is the first one named and not yet locked
ToLockAsListed(w) ==
    LET items == IF req[w].op = "create" THEN req[w].items ELSE order[w].items
        open == {i \in 1..Len(items) :
                    /\ items[i].product_id \in Products
                    /\ ~deleted[items[i].product_id]
                    /\ lock[items[i].product_id] # w}
    IN  IF open = {} THEN {}
        ELSE {items[CHOOSE i \in open : \A j \in open : i <= j].product_id}

\* the locking query without the deleted_at filter: soft-deleted rows are
\* locked and returned as well
ToLockWithDeleted(w) ==
    {p \in ItemProducts(IF req[w].op = "create" THEN req[w].items ELSE order[w].items)
          \cap Products :
        \A q \in Locked(w) : q < p}

\* rows get_by_ids_for_update still has to lock: the requested ids that name
\* a row not soft-deleted, above the rows already locked (order_by("id"))
ToLock(w) ==
    {p \in ItemProducts(IF req[w].op = "create" THEN req[w].items ELSE order[w].items)
          \cap Products :
        /\ ~deleted[p]
        /\ \A q \in Locked(w) : q < p}

\* get_by_ids_for_update reading a row without waiting for its lock (a plain
\* SELECT): the row is read while another transaction holds it
LockNextNoWait(w) ==
    /\ pc[w] = "lock"
    /\ ToLock(w) # {}
    /\ LET p == Min(ToLock(w))
       IN  /\ lock' = [lock EXCEPT ![p] = w]
           /\ product_map' = [product_map EXCEPT ![w][p] =
                   [is_active |-> is_active[p], price |-> price[p],
                    sku |-> sku[p], name |-> name[p], present |-> TRUE,
                    stock_quantity |-> stock[p]]]
    /\ UNCHANGED <<dbVars, cache, events, nreq, pc, req, txWrites, idx, order,
                   old_status, resp, admin>>

\* each row is updated as it is reached, outside the transaction: the stock
\* of the row is written at once instead of after every lock is held
LockNextAutocommit(w) ==
    /\ pc[w] = "lock"
    /\ ToLock(w) # {}
    /\ LET p == Min(ToLock(w))
           items == IF req[w].op = "create" THEN req[w].items ELSE order[w].items
           first == CHOOSE i \in 1..Len(items) :
                        /\ items[i].product_id = p
                        /\ \A j \in 1..Len(items) : items[j].product_id = p => i <= j
           after == IF req[w].op = "create"
                    THEN IF stock[p] >= items[first].quantity
                         THEN stock[p] - items[first].quantity ELSE stock[p]
                    ELSE stock[p] + items[first].quantity
       IN  /\ lock[p] = NoWorker
           /\ lock' = [lock EXCEPT ![p] = w]
           /\ stock' = [stock EXCEPT ![p] = after]
           /\ product_map' = [product_map EXCEPT ![w][p] =
                   [is_active |-> is_active[p], price |-> price[p],
                    sku |-> sku[p], name |-> name[p], present |-> TRUE,
                    stock_quantity |-> after]]
    /\ UNCHANGED <<is_active, deleted, orders, history, catalog, cache, events, nreq,
                   pc, req, txWrites, idx, order, old_status, resp, admin>>

\* ProductRepository.get_by_ids_for_update: take the next row lock and read
\* the row
LockNext(w) ==
    /\ pc[w] = "lock"
    /\ ToLock(w) # {}
    /\ LET p == Min(ToLock(w))
       IN  /\ lock[p] = NoWorker
           /\ lock' = [lock EXCEPT ![p] = w]
           /\ product_map' = [product_map EXCEPT ![w][p] =
                   [is_active |-> is_active[p], price |-> price[p],
                    sku |-> sku[p], name |-> name[p], present |-> TRUE,
                    stock_quantity |-> stock[p]]]
    /\ UNCHANGED <<dbVars, cache, events, nreq, pc, req, txWrites, idx, order,
                   old_status, resp, admin>>

\* the locking query is complete; lines 86-90: every item's product must be
\* among the locked rows
CreateCheckExists(w) ==
    /\ pc[w] = "lock"
    /\ req[w].op = "create"
    /\ ToLock(w) = {}
    /\ IF \E i \in 1..Len(req[w].items) :
            LET pid == req[w].items[i].product_id
            IN  pid \notin Products \/ ~product_map[w][pid].present
       THEN /\ Raise(w, HTTP_404_NOT_FOUND, "not_found")
            /\ Rollback(w)
            /\ product_map' = [product_map EXCEPT ![w] = EmptyMap]
            /\ UNCHANGED idx
       ELSE /\ pc' = [pc EXCEPT ![w] = "items"]
            /\ idx' = [idx EXCEPT ![w] = 1]
            /\ UNCHANGED <<resp, stock, lock, txWrites, product_map>>
    /\ UNCHANGED <<is_active, deleted, orders, history, cache, events, nreq, req,
                   order, old_status, admin, catalog>>

\* OrderRepository.create: the order row, its items and the creation entry
create(entity) ==
    /\ orders' = Append(orders, entity)
    /\ history' = Append(history, << [from_status |-> "", to_status |-> PENDING] >>)

\* lines 114-122: the OrderItemEntity list built by the loop, each item with
\* the SKU, name and price of the locked product entity
order_items(w) ==
    [i \in 1..Len(req[w].items) |->
        LET item == req[w].items[i]
            product == product_map[w][item.product_id]
        IN  OrderItemEntity(item.product_id, product.sku, product.name,
                            item.quantity, product.price)]

\* OrderItemEntity.subtotal and OrderEntity.total (from item i on)
RECURSIVE TotalFrom(_, _)
TotalFrom(items, i) ==
    IF i > Len(items) THEN 0
    ELSE items[i].unit_price * items[i].quantity + TotalFrom(items, i + 1)
\* the quantities left out: the sum of the unit prices
total_of_prices(items) == TotalFrom([i \in 1..Len(items) |-> [items[i] EXCEPT !.quantity = 1]], 1)

total(items) == TotalFrom(items, 1)

\* OrderEntity.validate: at least one item, quantities and prices positive
\* (the customer was checked before the transaction)
validate(items) ==
    /\ items # <<>>
    /\ \A i \in 1..Len(items) : items[i].quantity > 0 /\ items[i].unit_price > 0

\* lines 124-138: build the order, persist it, leave transaction.atomic()
CreatePersist(w) ==
    /\ create([deleted |-> FALSE, status |-> PENDING, key |-> req[w].key,
               items |-> order_items(w)])
    /\ resp' = [resp EXCEPT ![w] = [status |-> HTTP_201_CREATED, error |-> "",
                                    message |-> <<>>,
                                    order_id |-> Len(orders) + 1]]
    /\ pc' = [pc EXCEPT ![w] = "publish"]

\* the stock of an item is checked before its product's is_active
CreateItemStockFirst(w) ==
    /\ pc[w] = "items"
    /\ LET item == req[w].items[idx[w]]
           product == product_map[w][item.product_id]
           deducted == deduct_stock(product, item.quantity)
       IN  IF ~has_sufficient_stock(product, item.quantity)
           THEN /\ Raise(w, HTTP_422_UNPROCESSABLE_ENTITY, "insufficient_stock")
                /\ Rollback(w)
                /\ product_map' = [product_map EXCEPT ![w] = EmptyMap]
                /\ idx' = [idx EXCEPT ![w] = 0]
                /\ UNCHANGED <<orders, history>>
           ELSE IF ~product.is_active
           THEN /\ Raise(w, HTTP_422_UNPROCESSABLE_ENTITY, "business_rule_violation")
                /\ Rollback(w)
                /\ product_map' = [product_map EXCEPT ![w] = EmptyMap]
                /\ idx' = [idx EXCEPT ![w] = 0]
                /\ UNCHANGED <<orders, history>>
           ELSE IF idx[w] < Len(req[w].items)
           THEN /\ product_map' = [product_map EXCEPT ![w][item.product_id] = deducted]
                /\ update_stock(w, item.product_id, deducted.stock_quantity)
                /\ idx' = [idx EXCEPT ![w] = @ + 1]
                /\ UNCHANGED <<pc, resp, stock, lock, orders, history>>
           ELSE IF ~validate(order_items(w))
           THEN /\ Raise(w, HTTP_422_UNPROCESSABLE_ENTITY, "business_rule_violation")
                /\ Rollback(w)
                /\ product_map' = [product_map EXCEPT ![w] = EmptyMap]
                /\ idx' = [idx EXCEPT ![w] = 0]
                /\ UNCHANGED <<orders, history>>
           ELSE /\ CreatePersist(w)
                /\ Commit(w, stock_write(txWrites[w], item.product_id,
                                         deducted.stock_quantity))
                /\ product_map' = [product_map EXCEPT ![w] = EmptyMap]
                /\ idx' = [idx EXCEPT ![w] = 0]
    /\ UNCHANGED <<is_active, deleted, cache, events, nreq, req, order, old_status,
                   admin, catalog>>

\* every item is checked against and deducted from the quantity of the stored
\* row instead of the entity the earlier items of the list have deducted from
CreateItemRowStock(w) ==
    /\ pc[w] = "items"
    /\ LET item == req[w].items[idx[w]]
           product == [product_map[w][item.product_id] EXCEPT
                          !.stock_quantity = stock[item.product_id]]
           deducted == deduct_stock(product, item.quantity)
       IN  IF ~product.is_active
           THEN /\ Raise(w, HTTP_422_UNPROCESSABLE_ENTITY, "business_rule_violation")
                /\ Rollback(w)
                /\ product_map' = [product_map EXCEPT ![w] = EmptyMap]
                /\ idx' = [idx EXCEPT ![w] = 0]
                /\ UNCHANGED <<orders, history>>
           ELSE IF ~has_sufficient_stock(product, item.quantity)
           THEN /\ Raise(w, HTTP_422_UNPROCESSABLE_ENTITY, "insufficient_stock")
                /\ Rollback(w)
                /\ product_map' = [product_map EXCEPT ![w] = EmptyMap]
                /\ idx' = [idx EXCEPT ![w] = 0]
                /\ UNCHANGED <<orders, history>>
           ELSE IF idx[w] < Len(req[w].items)
           THEN /\ product_map' = [product_map EXCEPT ![w][item.product_id] = deducted]
                /\ update_stock(w, item.product_id, deducted.stock_quantity)
                /\ idx' = [idx EXCEPT ![w] = @ + 1]
                /\ UNCHANGED <<pc, resp, stock, lock, orders, history>>
           ELSE IF ~validate(order_items(w))
           THEN /\ Raise(w, HTTP_422_UNPROCESSABLE_ENTITY, "business_rule_violation")
                /\ Rollback(w)
                /\ product_map' = [product_map EXCEPT ![w] = EmptyMap]
                /\ idx' = [idx EXCEPT ![w] = 0]
                /\ UNCHANGED <<orders, history>>
           ELSE /\ CreatePersist(w)
                /\ Commit(w, stock_write(txWrites[w], item.product_id,
                                         deducted.stock_quantity))
                /\ product_map' = [product_map EXCEPT ![w] = EmptyMap]
                /\ idx' = [idx EXCEPT ![w] = 0]
    /\ UNCHANGED <<is_active, deleted, cache, events, nreq, req, order, old_status,
                   admin, catalog>>

\* lines 94-122: one iteration of the check-and-deduct loop; after the last
\* item the order is persisted and the transaction commits
CreateItem(w) ==
    /\ pc[w] = "items"
    /\ LET item == req[w].items[idx[w]]
           product == product_map[w][item.product_id]
           deducted == deduct_stock(product, item.quantity)
       IN  IF ~product.is_active
           THEN /\ Raise(w, HTTP_422_UNPROCESSABLE_ENTITY, "business_rule_violation")
                /\ Rollback(w)
                /\ product_map' = [product_map EXCEPT ![w] = EmptyMap]
                /\ idx' = [idx EXCEPT ![w] = 0]
                /\ UNCHANGED <<orders, history>>
           ELSE IF ~has_sufficient_stock(product, item.quantity)
           THEN /\ Raise(w, HTTP_422_UNPROCESSABLE_ENTITY, "insufficient_stock")
                /\ Rollback(w)
                /\ product_map' = [product_map EXCEPT ![w] = EmptyMap]
                /\ idx' = [idx EXCEPT ![w] = 0]
                /\ UNCHANGED <<orders, history>>
           ELSE IF idx[w] < Len(req[w].items)
           THEN /\ product_map' = [product_map EXCEPT ![w][item.product_id] = deducted]
                /\ update_stock(w, item.product_id, deducted.stock_quantity)
                /\ idx' = [idx EXCEPT ![w] = @ + 1]
                /\ UNCHANGED <<pc, resp, stock, lock, orders, history>>
           ELSE IF ~validate(order_items(w))
           THEN /\ Raise(w, HTTP_422_UNPROCESSABLE_ENTITY, "business_rule_violation")
                /\ Rollback(w)
                /\ product_map' = [product_map EXCEPT ![w] = EmptyMap]
                /\ idx' = [idx EXCEPT ![w] = 0]
                /\ UNCHANGED <<orders, history>>
           ELSE /\ CreatePersist(w)
                /\ Commit(w, stock_write(txWrites[w], item.product_id,
                                         deducted.stock_quantity))
                /\ product_map' = [product_map EXCEPT ![w] = EmptyMap]
                /\ idx' = [idx EXCEPT ![w] = 0]
    /\ UNCHANGED <<is_active, deleted, cache, events, nreq, req, order, old_status,
                   admin, catalog>>

\* EventBus.publish: the handlers run in the caller; one of them may raise,
\* and the exception becomes the response
publish(w, event_type, order_id, ok) ==
    IF ok
    THEN /\ events' = events \cup {[order_id |-> order_id, type |-> event_type]}
         /\ UNCHANGED resp
    ELSE /\ resp' = [resp EXCEPT ![w] =
                        ErrorResponse(HTTP_500_INTERNAL_SERVER_ERROR, "internal_error")]
         /\ UNCHANGED events

\* lines 140-154, OrderViewSet.create's response and the middleware's tail
CreatePublish(w) ==
    /\ pc[w] = "publish"
    /\ req[w].op = "create"
    /\ \E ok \in BOOLEAN : publish(w, "order_created", resp[w].order_id, ok)
    /\ CacheSet(w, resp'[w])
    /\ pc' = [pc EXCEPT ![w] = "idle"]
    /\ UNCHANGED <<dbVars, lock, nreq, req, localVars, admin>>

\* ------------------------------------------------ OrderService.get_order
\* the order row is read whether or not it is soft-deleted
get_order_any(order_id) ==
    IF order_id \in 1..Len(orders)
    THEN [status |-> orders[order_id].status, items |-> orders[order_id].items,
          found |-> TRUE]
    ELSE NoOrder

\* the order read with the SKU, name and price of each item taken from the
\* product row the item points to
get_order_joined(order_id) ==
    IF order_id \in 1..Len(orders) /\ ~orders[order_id].deleted
    THEN [status |-> orders[order_id].status,
          items |-> [i \in 1..Len(orders[order_id].items) |->
                        LET item == orders[order_id].items[i]
                        IN  OrderItemEntity(item.product_id, sku[item.product_id],
                                            name[item.product_id], item.quantity,
                                            price[item.product_id])],
          found |-> TRUE]
    ELSE NoOrder

\* OrderRepository.get_by_id: the order row unless absent or soft-deleted
get_order(order_id) ==
    IF order_id \in 1..Len(orders) /\ ~orders[order_id].deleted
    THEN [status |-> orders[order_id].status, items |-> orders[order_id].items,
          found |-> TRUE]
    ELSE NoOrder

\* get_order, then OrderEntity.transition_to on the entity just read
ReadAndValidate(w, next) ==
    LET o == get_order(req[w].order_id)
    IN  IF ~o.found
        THEN /\ Raise(w, HTTP_404_NOT_FOUND, "not_found")
             /\ UNCHANGED order
        ELSE IF ~can_transition_to(o.status, req[w].new_status)
        THEN /\ resp' = [resp EXCEPT ![w] =
                    InvalidStateTransitionException(o.status, req[w].new_status)]
             /\ pc' = [pc EXCEPT ![w] = "idle"]
             /\ UNCHANGED order
        ELSE /\ order' = [order EXCEPT ![w] = o]
             /\ pc' = [pc EXCEPT ![w] = next]
             /\ UNCHANGED resp

\* OrderRepository.update_status lines 115-120: read the row to be updated
RepoGet(w) ==
    old_status' = [old_status EXCEPT ![w] =
        IF get_order(req[w].order_id).found
        THEN orders[req[w].order_id].status ELSE "missing"]

\* the status is saved and the order's item rows are deleted with it
RepoSaveClearsItems(w) ==
    LET oid == req[w].order_id
    IN  IF old_status[w] = "missing"
        THEN UNCHANGED <<orders, history>>
        ELSE /\ orders' = [orders EXCEPT ![oid].status = req[w].new_status,
                                         ![oid].items = <<>>]
             /\ history' = [history EXCEPT ![oid] =
                    Append(@, [from_status |-> old_status[w],
                               to_status |-> req[w].new_status])]

\* OrderRepository.update_status lines 121-130: save the status, append the
\* history entry (nothing is written when the row was not found)
RepoSave(w) ==
    LET oid == req[w].order_id
    IN  IF old_status[w] = "missing"
        THEN UNCHANGED <<orders, history>>
        ELSE /\ orders' = [orders EXCEPT ![oid].status = req[w].new_status]
             /\ history' = [history EXCEPT ![oid] =
                    Append(@, [from_status |-> old_status[w],
                               to_status |-> req[w].new_status])]

\* the closing get_order of update_status / cancel_order and the 200 response
ReturnOrder(w, ok) ==
    IF ~ok
    THEN ErrorResponse(HTTP_500_INTERNAL_SERVER_ERROR, "internal_error")
    ELSE IF get_order(req[w].order_id).found
    THEN [status |-> HTTP_200_OK, error |-> "", message |-> <<>>,
          order_id |-> req[w].order_id]
    ELSE ErrorResponse(HTTP_404_NOT_FOUND, "not_found")

\* ---------------------------------------------- OrderService.update_status
\* the order is read but transition_to is not called before the repository's
\* update_status
StatusReadNoCheck(w) ==
    /\ pc[w] = "us_read"
    /\ LET o == get_order(req[w].order_id)
       IN  IF ~o.found
           THEN /\ Raise(w, HTTP_404_NOT_FOUND, "not_found")
                /\ UNCHANGED order
           ELSE /\ order' = [order EXCEPT ![w] = o]
                /\ pc' = [pc EXCEPT ![w] = "us_get"]
                /\ UNCHANGED resp
    /\ UNCHANGED <<dbVars, lock, cache, events, nreq, req, product_map, txWrites,
                   idx, old_status, admin>>

\* lines 192-203
StatusRead(w) ==
    /\ pc[w] = "us_read"
    /\ ReadAndValidate(w, "us_get")
    /\ UNCHANGED <<dbVars, lock, cache, events, nreq, req, product_map, txWrites,
                   idx, old_status, admin>>

StatusGet(w) ==
    /\ pc[w] = "us_get"
    /\ RepoGet(w)
    /\ pc' = [pc EXCEPT ![w] = "us_save"]
    /\ UNCHANGED <<dbVars, lock, cache, events, nreq, req, product_map, txWrites,
                   idx, order, resp, admin>>

StatusSave(w) ==
    /\ pc[w] = "us_save"
    /\ RepoSave(w)
    /\ pc' = [pc EXCEPT ![w] = "publish"]
    /\ old_status' = [old_status EXCEPT ![w] = ""]
    /\ order' = [order EXCEPT ![w] = NoOrder]
    /\ UNCHANGED <<stock, is_active, deleted, lock, cache, events, nreq, req,
                   product_map, txWrites, idx, resp, admin, catalog>>

\* lines 211-223
StatusPublish(w) ==
    /\ pc[w] = "publish"
    /\ req[w].op = "status"
    /\ \E ok \in BOOLEAN :
          /\ events' = IF ok THEN events \cup {[order_id |-> req[w].order_id,
                                               type |-> "order_status_updated"]}
                       ELSE events
          /\ resp' = [resp EXCEPT ![w] = ReturnOrder(w, ok)]
    /\ pc' = [pc EXCEPT ![w] = "idle"]
    /\ UNCHANGED <<dbVars, lock, cache, nreq, req, localVars, admin>>

\* ----------------------------------------------- OrderService.cancel_order
\* the order is read but transition_to is not called before the transaction
CancelReadNoCheck(w) ==
    /\ pc[w] = "c_read"
    /\ LET o == get_order(req[w].order_id)
       IN  IF ~o.found
           THEN /\ Raise(w, HTTP_404_NOT_FOUND, "not_found")
                /\ UNCHANGED order
           ELSE /\ order' = [order EXCEPT ![w] = o]
                /\ pc' = [pc EXCEPT ![w] = "lock"]
                /\ UNCHANGED resp
    /\ UNCHANGED <<dbVars, lock, cache, events, nreq, req, product_map, txWrites,
                   idx, old_status, admin>>

\* lines 230-235
CancelRead(w) ==
    /\ pc[w] = "c_read"
    /\ ReadAndValidate(w, "lock")
    /\ UNCHANGED <<dbVars, lock, cache, events, nreq, req, product_map, txWrites,
                   idx, old_status, admin>>

\* lines 241-247: the restore loop from item i on, over the locked entities;
\* the result is the pair <<entities, writes>>
RECURSIVE RestoreItems(_, _, _, _)
RestoreItems(items, i, map, writes) ==
    IF i > Len(items) THEN <<map, writes>>
    ELSE LET pid == items[i].product_id
             product == IF pid \in Products THEN map[pid] ELSE NoEntity
             restored == restore_stock(product, items[i].quantity)
         IN  IF product.present
             THEN RestoreItems(items, i + 1, [map EXCEPT ![pid] = restored],
                               stock_write(writes, pid, restored.stock_quantity))
             ELSE RestoreItems(items, i + 1, map, writes)

\* the order_cancelled event published inside the transaction, after the
\* restore loop
CancelRestorePublishes(w) ==
    /\ pc[w] = "lock"
    /\ req[w].op = "cancel"
    /\ ToLock(w) = {}
    /\ LET r == RestoreItems(order[w].items, 1, product_map[w], txWrites[w])
       IN  /\ product_map' = [product_map EXCEPT ![w] = r[1]]
           /\ txWrites' = [txWrites EXCEPT ![w] = r[2]]
    /\ RepoGet(w)
    /\ events' = events \cup {[order_id |-> req[w].order_id, type |-> "order_cancelled"]}
    /\ pc' = [pc EXCEPT ![w] = "c_save"]
    /\ UNCHANGED <<dbVars, lock, cache, nreq, req, idx, order, resp, admin>>

\* the locking query is complete; lines 241-247, then the first half of
\* OrderRepository.update_status
CancelRestore(w) ==
    /\ pc[w] = "lock"
    /\ req[w].op = "cancel"
    /\ ToLock(w) = {}
    /\ LET r == RestoreItems(order[w].items, 1, product_map[w], txWrites[w])
       IN  /\ product_map' = [product_map EXCEPT ![w] = r[1]]
           /\ txWrites' = [txWrites EXCEPT ![w] = r[2]]
    /\ RepoGet(w)
    /\ pc' = [pc EXCEPT ![w] = "c_save"]
    /\ UNCHANGED <<dbVars, lock, cache, events, nreq, req, idx, order, resp, admin>>

\* lines 249-254: second half of OrderRepository.update_status, then the
\* transaction commits
CancelSave(w) ==
    /\ pc[w] = "c_save"
    /\ RepoSave(w)
    /\ Commit(w, txWrites[w])
    /\ product_map' = [product_map EXCEPT ![w] = EmptyMap]
    /\ old_status' = [old_status EXCEPT ![w] = ""]
    /\ order' = [order EXCEPT ![w] = NoOrder]
    /\ pc' = [pc EXCEPT ![w] = "publish"]
    /\ UNCHANGED <<is_active, deleted, cache, events, nreq, req, idx, resp, admin,
                   catalog>>

\* lines 256-262, OrderViewSet.cancel's response and the middleware's tail
CancelPublish(w) ==
    /\ pc[w] = "publish"
    /\ req[w].op = "cancel"
    /\ \E ok \in BOOLEAN :
          /\ events' = IF ok THEN events \cup {[order_id |-> req[w].order_id,
                                               type |-> "order_cancelled"]}
                       ELSE events
          /\ resp' = [resp EXCEPT ![w] = ReturnOrder(w, ok)]
    /\ CacheSet(w, resp'[w])
    /\ pc' = [pc EXCEPT ![w] = "idle"]
    /\ UNCHANGED <<dbVars, lock, nreq, req, localVars, admin>>

\* --------------------------------------------------------- ProductService
\* ProductService.delete_product: get_product, then ProductRepository.soft_delete
\* (an UPDATE, which waits for the row lock)
DeleteProduct(p) ==
    /\ ~deleted[p]
    /\ lock[p] = NoWorker
    /\ deleted' = [deleted EXCEPT ![p] = TRUE]
    /\ is_active' = [is_active EXCEPT ![p] = FALSE]
    /\ UNCHANGED <<stock, orders, history, lock, cache, events, nreq, pc, req,
                   localVars, resp, admin, catalog>>

\* ProductService.get_product: the row read without a lock
get_product(p) ==
    [product_id |-> p, is_active |-> is_active[p], price |-> price[p],
     sku |-> sku[p], name |-> name[p], stock_quantity |-> stock[p]]

\* ProductService.update_product lines 76-95 with data = {"is_active": False}:
\* the entity is read without a lock and changed in memory
UpdateProductRead(p) ==
    /\ admin = NoAdmin
    /\ ~deleted[p]
    /\ admin' = [get_product(p) EXCEPT !.is_active = FALSE]
    /\ UNCHANGED <<dbVars, lock, cache, events, nreq, pc, req, localVars, resp>>

\* ProductEntity.validate on the changed entity (SKU and name are never
\* blank here, the stock read is never negative)
product_valid(entity) == entity.price > 0 /\ entity.stock_quantity >= 0

\* ProductRepository.get_by_sku: a row not soft-deleted carries the SKU
get_by_sku(s) == \E q \in Products : ~deleted[q] /\ sku[q] = s

\* PUT /products/{id}/ with a new price, SKU, name or is_active = False
\* (ProductService.update_product lines 76-95): the entity is read without a
\* lock, changed in memory and validated; a rejected update writes nothing
UpdateProductDescribe(p) ==
    /\ admin = NoAdmin
    /\ ~deleted[p]
    /\ nreq < MaxRequests
    /\ nreq' = nreq + 1
    /\ \E entity \in
            {[get_product(p) EXCEPT !.price = x] : x \in NewPrices}
            \cup {[get_product(p) EXCEPT !.sku = s] : s \in NewSkus}
            \cup {[get_product(p) EXCEPT !.name = n] : n \in NewNames}
            \cup {[get_product(p) EXCEPT !.is_active = FALSE]} :
          admin' = IF /\ entity.sku # sku[p] => ~get_by_sku(entity.sku)
                      /\ product_valid(entity)
                   THEN entity ELSE admin
    /\ UNCHANGED <<dbVars, lock, cache, events, pc, req, localVars, resp>>

\* ProductRepository.update: every column is written from the entity
UpdateProductWrite ==
    /\ admin # NoAdmin
    /\ lock[admin.product_id] = NoWorker
    /\ stock' = [stock EXCEPT ![admin.product_id] = admin.stock_quantity]
    /\ is_active' = [is_active EXCEPT ![admin.product_id] = admin.is_active]
    /\ price' = [price EXCEPT ![admin.product_id] = admin.price]
    /\ sku' = [sku EXCEPT ![admin.product_id] = admin.sku]
    /\ name' = [name EXCEPT ![admin.product_id] = admin.name]
    /\ admin' = NoAdmin
    /\ UNCHANGED <<deleted, orders, history, lock, cache, events, nreq, pc, req,
                   localVars, resp>>

\* the cache backend drops an entry whose time to live (IDEMPOTENCY_KEY_TTL)
\* has run out
Expire(k) ==
    /\ cache[k] # NoResponse
    /\ cache' = [cache EXCEPT ![k] = NoResponse]
    /\ UNCHANGED <<dbVars, lock, events, nreq, pc, req, localVars, resp, admin>>

\* OrderRepository.soft_delete: deleted_at is set on a row not yet deleted
soft_delete(order_id) ==
    /\ order_id \in 1..Len(orders)
    /\ ~orders[order_id].deleted
    /\ orders' = [orders EXCEPT ![order_id].deleted = TRUE]
    /\ UNCHANGED <<stock, is_active, deleted, history, catalog, lock, cache, events,
                   nreq, pc, req, localVars, resp, admin>>

\* get_by_ids_for_update waits for a row another transaction holds until the
\* store gives up (lock wait timeout, deadlock victim): the query raises a
\* database error inside transaction.atomic(), which rolls back and releases
\* the rows locked so far; the error is no domain exception and reaches the
\* fallback of the exception handler
LockTimeout(w) ==
    /\ pc[w] = "lock"
    /\ ToLock(w) # {}
    /\ lock[Min(ToLock(w))] \notin {NoWorker, w}
    /\ Raise(w, HTTP_500_INTERNAL_SERVER_ERROR, "internal_error")
    /\ Rollback(w)
    /\ product_map' = [product_map EXCEPT ![w] = EmptyMap]
    /\ UNCHANGED <<is_active, deleted, orders, history, catalog, cache, events, nreq,
                   req, idx, order, old_status, admin>>

\* --------------------------------------------------------- specifications
CreateStep(w) ==
    \/ Gate(w)
    \/ LockNext(w)
    \/ CreateCheckExists(w)
    \/ CreateItem(w)
    \/ CreatePublish(w)

StatusStep(w) ==
    \/ StatusRead(w)
    \/ StatusGet(w)
    \/ StatusSave(w)
    \/ StatusPublish(w)

CancelStep(w) ==
    \/ CancelRead(w)
    \/ CancelRestore(w)
    \/ CancelSave(w)
    \/ CancelPublish(w)

AllIdle == \A w \in Workers : pc[w] = "idle"

\* every operation, every input
Next ==
    \/ \E w \in Workers :
        \/ BeginCreate(w) \/ BeginStatus(w) \/ BeginCancel(w)
        \/ CreateStep(w) \/ StatusStep(w) \/ CancelStep(w)
    \/ \E p \in Products : DeleteProduct(p) \/ UpdateProductRead(p)
    \/ UpdateProductWrite
Spec == Init /\ [][Next]_vars

\* concurrent CreateOrder calls only
NextCreate == \E w \in Workers : BeginOrder(w) \/ CreateStep(w)
SpecCreate == InitCatalog /\ [][NextCreate]_vars

\* concurrent CreateOrder, ChangeStatus and CancelOrder calls
NextOrders ==
    \E w \in Workers :
        \/ BeginKeyed(w) \/ BeginStatus(w) \/ BeginCancel(w)
        \/ CreateStep(w) \/ StatusStep(w) \/ CancelStep(w)
SpecOrders == Init /\ [][NextOrders]_vars

\* concurrent keyed order creations
NextGate == \E w \in Workers : BeginKeyed(w) \/ CreateStep(w)
SpecGate == Init /\ [][NextGate]_vars

\* concurrent keyed order creations while cache entries expire
NextExpiry ==
    \/ \E w \in Workers : BeginKeyed(w) \/ CreateStep(w)
    \/ \E k \in Keys : Expire(k)
SpecExpiry == Init /\ [][NextExpiry]_vars

\* concurrent CreateOrder calls whose items fail different checks
NextMixed == \E w \in Workers : BeginMixed(w) \/ CreateStep(w)
SpecMixed == InitCatalog /\ [][NextMixed]_vars

\* concurrent CreateOrder calls of existing, inactive and unknown customers
NextCustomers == \E w \in Workers : BeginCustomer(w) \/ CreateStep(w)
SpecCustomers == Init /\ [][NextCustomers]_vars

\* concurrent CreateOrder calls while products are soft-deleted
NextGone ==
    \/ \E w \in Workers : BeginGone(w) \/ CreateStep(w)
    \/ \E p \in Products : DeleteProduct(p)
SpecGone == Init /\ [][NextGone]_vars

\* creations and cancellations whose lock wait may end in a database error
NextTimeout ==
    \E w \in Workers :
        \/ BeginBoth(w) \/ BeginCancel(w)
        \/ CreateStep(w) \/ CancelStep(w)
        \/ LockTimeout(w)
SpecTimeout == Init /\ [][NextTimeout]_vars

\* requests issued one after another: a request is accepted only when the
\* response to the previous one was returned
NextSeq ==
    \E w \in Workers :
        \/ AllIdle /\ BeginOrder(w)
        \/ AllIdle /\ BeginKeyed(w)
        \/ AllIdle /\ BeginStatus(w)
        \/ AllIdle /\ BeginCancel(w)
        \/ CreateStep(w) \/ StatusStep(w) \/ CancelStep(w)
SpecSeq == Init /\ [][NextSeq]_vars

\* concurrent ChangeStatus and CancelOrder calls on an existing order
NextStatus ==
    \E w \in Workers :
        \/ BeginStatus(w) \/ BeginCancel(w)
        \/ Gate(w) \/ LockNext(w) \/ StatusStep(w) \/ CancelStep(w)
SpecStatus == InitOrder /\ [][NextStatus]_vars

\* concurrent ChangeStatus and CancelOrder calls on an order that exists, is
\* absent, or gets soft-deleted
NextDeleted ==
    \/ \E w \in Workers :
        \/ BeginStatus(w) \/ BeginCancel(w)
        \/ Gate(w) \/ LockNext(w) \/ StatusStep(w) \/ CancelStep(w)
    \/ \E order_id \in 1..Len(orders) : soft_delete(order_id)
SpecDeleted == InitOrder /\ [][NextDeleted]_vars

\* CancelOrder calls on an existing order while products are deactivated or
\* soft-deleted
NextCancel ==
    \/ \E w \in Workers :
        \/ BeginCancel(w)
        \/ Gate(w) \/ LockNext(w) \/ CancelStep(w)
    \/ \E p \in Products : DeleteProduct(p) \/ UpdateProductRead(p)
    \/ UpdateProductWrite
SpecCancel == InitOrder /\ [][NextCancel]_vars

\* cancellations only, of one stored order, in any interleaving
NextCancels ==
    \E w \in Workers :
        \/ BeginCancel(w)
        \/ Gate(w) \/ LockNext(w) \/ CancelStep(w)
SpecCancels == InitOrder /\ [][NextCancels]_vars

\* creations and cancellations that carry idempotency keys
NextReuse ==
    \E w \in Workers :
        \/ BeginKeyed(w) \/ BeginKeyedCancel(w)
        \/ CreateStep(w) \/ CancelStep(w)
SpecReuse == Init /\ [][NextReuse]_vars

\* CreateOrder calls while products are repriced, renamed or deactivated
NextCatalog ==
    \/ \E w \in Workers : BeginPriced(w) \/ CreateStep(w)
    \/ \E p \in Products : UpdateProductDescribe(p)
    \/ UpdateProductWrite
SpecCatalog == Init /\ [][NextCatalog]_vars

\* concurrent CreateOrder and CancelOrder calls on the same two products,
\* every call scheduled fairly; a transaction waiting for a row lock gets it
\* when it is released often enough (the lock queue of the database)
NextLocks ==
    \E w \in Workers :
        \/ BeginBoth(w) \/ BeginCancel(w)
        \/ CreateStep(w) \/ CancelStep(w)
FairLocks ==
    \A w \in Workers :
        /\ WF_vars(CreateStep(w) \/ CancelStep(w))
        /\ SF_vars(LockNext(w))
SpecLocks == Init /\ [][NextLocks]_vars /\ FairLocks

\* ------------------------------------------------------------------ claims
\* quantity of product p reserved by the committed orders
RECURSIVE ReservedFrom(_, _)
ReservedFrom(i, p) ==
    IF i > Len(orders) THEN 0 ELSE QtyOf(orders[i].items, p) + ReservedFrom(i + 1, p)
Reserved(p) == ReservedFrom(1, p)

Finished(w) == pc[w] = "idle" /\ resp[w] # NoResponse
Order8 == CreateRequest(NoKey, 1, <<Item(1, 8)>>)

CreateStepWithoutCommit(w) ==
    /\ req[w].op = "create"
    /\ pc[w] \in {"gate", "lock", "items"}
    /\ \/ pc'[w] # pc[w] \/ idx'[w] # idx[w] \/ product_map'[w] # product_map[w]
    /\ pc'[w] # "publish"

\* C2: a CreateOrder call that fails leaves every stock quantity as it was and
\* writes no order and no history entry; the deductions of its earlier items
\* never reach the committed rows, which is all another transaction sees.
C2_FailedCreateAtomic ==
    [][\A w \in Workers :
          CreateStepWithoutCommit(w) =>
              /\ stock' = stock /\ orders' = orders /\ history' = history
              /\ \A p \in Products : lock[p] = w => stock[p] =
                    IF txWrites[w][p] = NoWrite THEN product_map[w][p].stock_quantity
                    ELSE stock[p]]_vars

\* an order of two items failed on its second item after the first was deducted
C2_Witness ==
    \E w \in Workers :
        /\ Finished(w)
        /\ req[w].items = <<Item(1, 4), Item(2, 8)>>
        /\ resp[w].error = "insufficient_stock"
        /\ stock = InitStock
        /\ orders = <<>>

OrdersOfKey(k) == {i \in 1..Len(orders) : orders[i].key = k}

StatusWritten(i) == i \in 1..Len(orders) /\ Len(history'[i]) > Len(history[i])

C8_TransitionTable ==
    /\ \A a, b \in OrderStatus : can_transition_to(a, b) <=> <<a, b>> \in SixEdges
    /\ Cardinality({ab \in OrderStatus \X OrderStatus :
                        ~can_transition_to(ab[1], ab[2])}) = 30
    /\ \A w \in Workers :
          /\ pc[w] \in {"us_get", "us_save", "c_save"}
                => <<order[w].status, req[w].new_status>> \in SixEdges
          /\ (Finished(w) /\ resp[w].error = "invalid_state_transition" /\ nreq = 1)
                => <<orders[req[w].order_id].status, req[w].new_status>> \notin SixEdges

\* pending -> shipped was rejected
C8_Witness ==
    \E w \in Workers :
        /\ Finished(w)
        /\ req[w].op = "status" /\ req[w].new_status = SHIPPED
        /\ resp[w].error = "invalid_state_transition"
        /\ orders[1].status = PENDING

\* the worker's CancelOrder call has committed
CancelCommitted(w) ==
    /\ req[w].op = "cancel"
    /\ \/ pc[w] = "publish"
       \/ Finished(w) /\ resp[w].status \in {HTTP_200_OK, HTTP_500_INTERNAL_SERVER_ERROR}

CancelCommits(w) == pc[w] = "c_save" /\ pc'[w] = "publish"

CancelOfUncancellable(w) ==
    /\ req[w].op = "cancel"
    /\ pc[w] = "c_read"
    /\ pc'[w] # "c_read"
    /\ req[w].order_id \in 1..Len(orders)
    /\ orders[req[w].order_id].status \in {SEPARATED, SHIPPED, DELIVERED, CANCELLED}

Satisfiable(r) ==
    /\ CustomerExists(r.customer_id) /\ CustomerActive(r.customer_id)
    /\ r.items # <<>>
    /\ \A i \in 1..Len(r.items) :
          /\ r.items[i].product_id \in Products
          /\ ~deleted[r.items[i].product_id]
          /\ is_active[r.items[i].product_id]
    /\ \A p \in Products : QtyOf(r.items, p) <= stock[p]

\* the step ends the worker's CreateOrder call with a rejection
CreateRejected(w) ==
    /\ req[w].op = "create"
    /\ pc[w] \in {"gate", "lock", "items"}
    /\ pc'[w] = "idle"
    /\ resp'[w].order_id = 0

\* the step commits the worker's CreateOrder transaction
CreateCommits(w) == req[w].op = "create" /\ pc[w] = "items" /\ pc'[w] = "publish"

InTransaction(w) == pc[w] \in {"lock", "items", "c_save"}

\* the worker waits for a row lock another worker holds
WaitsFor(w, v) ==
    /\ pc[w] = "lock" /\ ToLock(w) # {}
    /\ v # w /\ lock[Min(ToLock(w))] = v

\* a set of workers each waiting for a lock held by one of the set
CircularWait == \E S \in SUBSET Workers : S # {} /\ \A w \in S : \E v \in S : WaitsFor(w, v)

\* C13: CreateOrder and CancelOrder take their row locks in ascending product
\* id, so no state has a circular wait among transactions, and under fair
\* scheduling every open transaction commits or aborts.
C13_NoDeadlock ==
    /\ []~CircularWait
    /\ \A w \in Workers : InTransaction(w) ~> ~InTransaction(w)

\* a call that named product 2 before product 1 waits, holding no lock, for
\* the lock of product 1 while the holder of that lock still needs product 2
C13_Witness ==
    \E w, v \in Workers :
        /\ WaitsFor(w, v)
        /\ req[w].items = <<Item(2, 4), Item(1, 4)>>
        /\ Locked(w) = {}
        /\ pc[v] = "lock" /\ Locked(v) = {1} /\ ToLock(v) = {2}

\* C14: the stock of a product is changed only by a step of the transaction
\* that holds the product's row lock, so the stock always is the initial
\* stock minus the quantities of the committed orders.
C14_StockWrittenUnderLock ==
    [][\A p \in Products :
          /\ stock'[p] # stock[p] => lock[p] \in Workers
          /\ stock'[p] = InitStock[p] - ReservedFrom(1, p)']_vars

\* the change the worker's operation was to make is in the committed rows
Committed(w) ==
    IF req[w].op = "create"
    THEN resp[w].order_id \in 1..Len(orders)
    ELSE /\ req[w].order_id \in 1..Len(orders)
         /\ \E i \in 2..Len(history[req[w].order_id]) :
                history[req[w].order_id][i].to_status = req[w].new_status

\* the event the worker's operation publishes
EventOf(w) ==
    IF req[w].op = "create" THEN [order_id |-> resp[w].order_id, type |-> "order_created"]
    ELSE IF req[w].op = "cancel"
    THEN [order_id |-> req[w].order_id, type |-> "order_cancelled"]
    ELSE [order_id |-> req[w].order_id, type |-> "order_status_updated"]

StatusOfIllegalTarget(w) ==
    /\ req[w].op = "status"
    /\ pc[w] = "us_read"
    /\ pc'[w] # "us_read"
    /\ req[w].order_id \in 1..Len(orders)
    /\ ~orders[req[w].order_id].deleted
    /\ <<orders[req[w].order_id].status, req[w].new_status>> \notin SixEdges

HistoryChained ==
    \A i \in 1..Len(orders) :
        /\ history[i] # <<>>
        /\ history[i][1] = [from_status |-> "", to_status |-> PENDING]
        /\ \A j \in 2..Len(history[i]) :
                history[i][j].from_status = history[i][j - 1].to_status
        /\ history[i][Len(history[i])].to_status = orders[i].status

\* a step leaves the history of an order as it is, or appends the one entry
\* of the status change it makes
HistoryAppended ==
    \A i \in 1..Len(orders) :
        \/ history'[i] = history[i] /\ orders'[i].status = orders[i].status
        \/ history'[i] = Append(history[i], [from_status |-> orders[i].status,
                                             to_status |-> orders'[i].status])

C19_ItemsImmutable ==
    [][/\ Len(orders') >= Len(orders)
       /\ \A i \in 1..Len(orders) : orders'[i].items = orders[i].items]_vars

\* an order was confirmed and then cancelled, its stock restored, and its
\* items are the ones it was created with
C19_Witness ==
    /\ Len(orders) = 1
    /\ orders[1].status = CANCELLED
    /\ history[1] = HistoryOf(<<PENDING, CONFIRMED, CANCELLED>>)
    /\ events = {[order_id |-> 1, type |-> "order_status_updated"],
                 [order_id |-> 1, type |-> "order_cancelled"]}
    /\ stock[1] = InitStock[1]
    /\ orders[1].items \in {<<Line(1, 4)>>, <<Line(1, 4), Line(2, 4)>>}

\* the step changes the price, the name or the SKU of a product
CatalogChanges == catalog' # catalog

Steps(w) ==
    \/ pc'[w] # pc[w] \/ idx'[w] # idx[w] \/ product_map'[w] # product_map[w]

\* the worker's CreateOrder call without a key returned a created order
KeylessCreated(w) ==
    /\ Finished(w)
    /\ req[w].op = "create" /\ req[w].key = NoKey
    /\ resp[w].status = HTTP_201_CREATED

AtGate(w) == pc[w] = "gate" /\ Steps(w) /\ req[w].key \in Keys

\* C22: when an unexpired cached result exists for the request's key, the
\* gate returns the cached status code and payload and the operation is not
\* invoked: the request ends in that step, and stock, orders, history, events
\* and the cache entry are as before.
C22_HitReturnsCached ==
    [][\A w \in Workers :
          (AtGate(w) /\ cache[req[w].key] # NoResponse) =>
              /\ pc'[w] = "idle"
              /\ resp'[w] = cache[req[w].key]
              /\ UNCHANGED <<stock, orders, history, events, lock, cache>>]_vars

\* two requests with the same key returned the same created order, and only
\* one order and one deduction exist
C22_Witness ==
    \E w1, w2 \in Workers :
        /\ w1 # w2
        /\ Finished(w1) /\ Finished(w2)
        /\ req[w1].key = "k1" /\ req[w2].key = "k1"
        /\ resp[w1] = resp[w2]
        /\ resp[w1].status = HTTP_201_CREATED /\ resp[w1].order_id = 1
        /\ cache["k1"] = resp[w1]
        /\ Len(orders) = 1
        /\ stock[1] = InitStock[1] - 4

\* the step ends the worker's keyed request with the response of the
\* operation
OperationReturns(w) ==
    /\ req[w].key \in Keys
    /\ pc[w] \in {"lock", "items", "publish"}
    /\ pc'[w] = "idle"

\* C23: the gate stores a result under the key only when the operation
\* succeeded: with requests issued one after another, a keyed request whose
\* operation failed leaves no cache entry for its key, a successful one
\* leaves its response there, and a request that finds no entry for its key
\* invokes the operation.
C23_StoredOnlyOnSuccess ==
    [][\A w \in Workers :
          /\ OperationReturns(w) =>
                /\ cache'[req[w].key] =
                      IF resp'[w].status \in 200..299 THEN resp'[w] ELSE NoResponse
                /\ \A k \in Keys \ {req[w].key} : cache'[k] = cache[k]
          /\ (AtGate(w) /\ cache[req[w].key] = NoResponse) => pc'[w] = "lock"]_vars

\* a request with key k1 failed for insufficient stock, and the next request
\* with key k1 ran the operation and created the second order
C23_Witness ==
    \E w1, w2 \in Workers :
        /\ Finished(w1) /\ Finished(w2)
        /\ req[w1].key = "k1" /\ req[w1].items = <<Item(1, 8)>>
        /\ resp[w1].error = "insufficient_stock"
        /\ req[w2].key = "k1" /\ req[w2].items = <<Item(1, 4)>>
        /\ resp[w2].status = HTTP_201_CREATED /\ resp[w2].order_id = 2
        /\ cache["k1"] = resp[w2]
        /\ Len(orders) = 2 /\ orders[2].key = "k1"

KeyedCreated(w) ==
    /\ Finished(w)
    /\ req[w].op = "create" /\ req[w].key \in Keys
    /\ resp[w].status = HTTP_201_CREATED

\* the response of worker w names an order of the items the request asked
\* for (a replay of a response stored for another payload does not)
AnswersOwnPayload(w) ==
    /\ resp[w].order_id \in 1..Len(orders)
    /\ LET items == orders[resp[w].order_id].items
       IN  req[w].items = [i \in 1..Len(items) |->
                              Item(items[i].product_id, items[i].quantity)]

RECURSIVE FirstError(_, _, _)
FirstError(items, i, avail) ==
    IF i > Len(items) THEN ""
    ELSE LET p == items[i].product_id
         IN  IF p \notin Products \/ deleted[p] THEN "not_found"
             ELSE IF ~is_active[p] THEN "business_rule_violation"
             ELSE IF avail[p] < items[i].quantity THEN "insufficient_stock"
             ELSE FirstError(items, i + 1, [avail EXCEPT ![p] = @ - items[i].quantity])

\* the step ends the worker's CreateOrder transaction with a rejection
CreateAborts(w) ==
    /\ req[w].op = "create"
    /\ pc[w] \in {"lock", "items"}
    /\ pc'[w] = "idle"

\* C26 as stated: the error of a failing CreateOrder is the one of the first
\* item, in the order given by the caller, that fails a check, with the
\* checks of one item applied in the order exists, active, sufficient stock.
C26_FirstFailingItem ==
    [][\A w \in Workers :
          CreateAborts(w) => resp'[w].error = FirstError(req[w].items, 1, stock)]_vars

\* the worker's CreateOrder call takes its first step, the checks made before
\* the transaction
CreateStarts(w) == req[w].op = "create" /\ pc[w] = "gate" /\ Steps(w)

\* C27: CreateOrder fails with EntityNotFound when the customer id resolves
\* to no existing customer, and with BusinessRuleViolation when the customer
\* is inactive or the item list is empty; the call ends there, no transaction
\* is opened, and stock, orders and history are unchanged.
C27_CustomerAndItemsChecked ==
    [][\A w \in Workers :
          LET c == req[w].customer_id
          IN  (CreateStarts(w) /\ (~CustomerExists(c) \/ ~CustomerActive(c)
                                      \/ req[w].items = <<>>)) =>
                  /\ pc'[w] = "idle"
                  /\ resp'[w] =
                        IF ~CustomerExists(c)
                        THEN ErrorResponse(HTTP_404_NOT_FOUND, "not_found")
                        ELSE ErrorResponse(HTTP_422_UNPROCESSABLE_ENTITY,
                                           "business_rule_violation")
                  /\ UNCHANGED <<stock, orders, history, lock, txWrites,
                                 events>>]_vars

\* after an order was created, a call for an unknown customer ended with
\* not found and a call for an inactive customer with a rule violation
C27_Witness ==
    \E w1, w2 \in Workers :
        /\ Finished(w1) /\ Finished(w2)
        /\ req[w1].customer_id = 3 /\ resp[w1].error = "not_found"
        /\ req[w2].customer_id = 2 /\ req[w2].items = <<Item(1, 4)>>
        /\ resp[w2].error = "business_rule_violation"
        /\ Len(orders) = 1
        /\ stock[1] = InitStock[1] - 4

\* an item names a product that has no row or is soft-deleted
NamesMissingProduct(items) ==
    \E i \in 1..Len(items) :
        items[i].product_id \notin Products \/ deleted[items[i].product_id]

\* C26 amended: a CreateOrder with an item whose product does not exist fails
\* with EntityNotFound, whatever the items before it; otherwise its error is
\* the one of the first item, in the order given by the caller, that fails a
\* check, active being checked before sufficient stock.
C26_MissingProductFirst ==
    [][\A w \in Workers :
          CreateAborts(w) =>
              resp'[w].error = IF NamesMissingProduct(req[w].items) THEN "not_found"
                               ELSE FirstError(req[w].items, 1, stock)]_vars

\* an order whose first item was short of stock and whose second item named
\* no product ended with not found
C26_Witness ==
    \E w \in Workers :
        /\ Finished(w)
        /\ req[w].items = <<Item(2, 8), Item(MissingProduct, 4)>>
        /\ is_active[2] /\ stock[2] = InitStock[2]
        /\ resp[w].error = "not_found"

\* the worker's ChangeStatus or CancelOrder call loads an order id that names
\* no order or a soft-deleted one
LoadsMissingOrder(w) ==
    /\ req[w].op \in {"status", "cancel"}
    /\ pc[w] \in {"us_read", "c_read"}
    /\ Steps(w)
    /\ \/ req[w].order_id \notin 1..Len(orders)
       \/ orders[req[w].order_id].deleted

\* C28: ChangeStatus and CancelOrder on an order id that is absent or
\* soft-deleted fail with EntityNotFound; no stock, no order status and no
\* history entry changes, no lock is taken and no event is published.
C28_MissingOrderNotFound ==
    [][\A w \in Workers :
          LoadsMissingOrder(w) =>
              /\ pc'[w] = "idle"
              /\ resp'[w] = ErrorResponse(HTTP_404_NOT_FOUND, "not_found")
              /\ UNCHANGED <<stock, orders, history, events, lock, txWrites>>]_vars

\* ChangeStatus of the soft-deleted order 1 and CancelOrder of the absent
\* order 2 both ended with not found
C28_Witness ==
    \E w1, w2 \in Workers :
        /\ Finished(w1) /\ Finished(w2)
        /\ req[w1].op = "status" /\ req[w1].order_id = 1
        /\ req[w2].op = "cancel" /\ req[w2].order_id = 2
        /\ resp[w1].error = "not_found" /\ resp[w2].error = "not_found"
        /\ Len(orders) = 1 /\ orders[1].deleted
        /\ orders[1].status = PENDING /\ Len(history[1]) = 1
        /\ events = {}

\* every product entity a transaction holds was read from a row that exists,
\* is not soft-deleted and is locked by the transaction
ReadOnlyLiveRows ==
    \A w \in Workers, p \in Products :
        product_map[w][p].present => ~deleted[p] /\ lock[p] = w

\* the worker's CreateOrder call, its locking read complete, takes the step
\* that looks its items up among the rows read
CreateLooksUp(w) ==
    /\ req[w].op = "create"
    /\ pc[w] = "lock" /\ ToLock(w) = {}
    /\ Steps(w)

\* C29: the locked batch read returns only existing rows that are not
\* soft-deleted, so a CreateOrder that names a soft-deleted or nonexistent
\* product fails with EntityNotFound before any deduction: the stock of every
\* product, the orders and the history are unchanged and its locks are
\* released.
C29_GoneProductNotFound ==
    /\ []ReadOnlyLiveRows
    /\ [][\A w \in Workers :
            (CreateLooksUp(w) /\ NamesMissingProduct(req[w].items)) =>
                /\ pc'[w] = "idle"
                /\ resp'[w] = ErrorResponse(HTTP_404_NOT_FOUND, "not_found")
                /\ txWrites[w] = EmptyWrites
                /\ UNCHANGED <<stock, orders, history, events>>
                /\ \A p \in Products : lock'[p] # w]_vars

\* an order of products 1 and 2 failed with not found because product 2 had
\* been soft-deleted; the stock of product 1 is what it was
C29_Witness ==
    \E w \in Workers :
        /\ Finished(w)
        /\ req[w].items = <<Item(1, 4), Item(2, 4)>>
        /\ deleted[2] /\ ~deleted[1]
        /\ resp[w].error = "not_found"
        /\ orders = <<>>
        /\ stock = InitStock

\* the call of worker w is inside transaction.atomic() and still acquiring
\* its product row locks, and takes a step
AcquiresLocks(w) ==
    /\ pc[w] = "lock" /\ ToLock(w) # {}
    /\ Steps(w)

\* C30: a CreateOrder or CancelOrder transaction that is aborted because it
\* could not acquire a product row lock leaves stock, orders and history as
\* they were before it started: while it acquires its locks it has written
\* nothing, committed or uncommitted, and the abort itself changes no stock,
\* order or history, publishes no event, answers with an error and releases
\* the locks it held.
C30_LockTimeoutNoMutation ==
    [][\A w \in Workers :
        AcquiresLocks(w) =>
            /\ txWrites[w] = EmptyWrites /\ txWrites'[w] = EmptyWrites
            /\ UNCHANGED <<stock, orders, history>>
            /\ pc'[w] = "idle" =>
                   /\ resp'[w] = ErrorResponse(HTTP_500_INTERNAL_SERVER_ERROR,
                                               "internal_error")
                   /\ UNCHANGED events
                   /\ \A p \in Products : lock'[p] # w]_vars

\* a cancellation of an order of products 1 and 2 was aborted waiting for a
\* row that another call still holds; the order is still pending with its one
\* history row and the stock is what the order's creation left
C30_Witness ==
    \E w, v \in Workers :
        /\ Finished(w)
        /\ req[w].op = "cancel"
        /\ resp[w] = ErrorResponse(HTTP_500_INTERNAL_SERVER_ERROR, "internal_error")
        /\ \A p \in Products : lock[p] # w
        /\ \E p \in Products : lock[p] = v
        /\ orders[req[w].order_id].status = PENDING
        /\ Len(orders[req[w].order_id].items) = 2
        /\ history[req[w].order_id] = HistoryOf(<<PENDING>>)
        /\ stock = [p \in Products |-> InitStock[p] - 4]

\* quantity of product p held by the orders that are not cancelled (from
\* order i on)
RECURSIVE HeldFrom(_, _)
HeldFrom(i, p) ==
    IF i > Len(orders) THEN 0
    ELSE (IF orders[i].status # CANCELLED THEN QtyOf(orders[i].items, p) ELSE 0)
         + HeldFrom(i + 1, p)
Held(p) == HeldFrom(1, p)

CancelEntries(o) ==
    {i \in 1..Len(history[o]) : history[o][i].to_status = CANCELLED}

\* the calls of w1 and w2 are two finished cancellations of one order that
\* was pending or confirmed before any of them
TwoCancelsOf(w1, w2) ==
    /\ w1 # w2
    /\ Finished(w1) /\ Finished(w2)
    /\ req[w1].op = "cancel" /\ req[w2].op = "cancel"
    /\ req[w1].order_id = req[w2].order_id
    /\ req[w1].order_id \in 1..Len(orders)
    /\ LET h == history[req[w1].order_id]
           first == CHOOSE i \in 1..Len(h) :
                        \A j \in 1..Len(h) : h[j].to_status = CANCELLED => i <= j
       IN  /\ CancelEntries(req[w1].order_id) # {}
           /\ h[first].from_status \in {PENDING, CONFIRMED}
           /\ h[first].to_status = CANCELLED

RequestedOf(o) ==
    [i \in 1..Len(orders[o].items) |->
        Item(orders[o].items[i].product_id, orders[o].items[i].quantity)]

\* the stock left when the first n stored orders have run one at a time
RECURSIVE TakenUpTo(_, _)
TakenUpTo(n, p) ==
    IF n = 0 THEN 0 ELSE QtyOf(orders[n].items, p) + TakenUpTo(n - 1, p)
StockAfter(n) == [p \in Products |-> InitStock[p] - TakenUpTo(n, p)]

\* the error of a create_order call that runs alone on the stock avail, ""
\* when it commits: the empty list, then the existence of every product,
\* then activity and stock item by item on the running quantities
SerialError(items, avail) ==
    IF items = <<>> THEN "business_rule_violation"
    ELSE IF NamesMissingProduct(items) THEN "not_found"
    ELSE FirstError(items, 1, avail)

\* C33: serializability of reservations: the final stock of every product
\* and the set of CreateOrder calls that succeeded are those of running the
\* calls one at a time in some order, namely the committed calls in the order
\* of their commits followed by the rejected ones. Each stored order commits
\* when run alone on the stock the orders before it leave, the stock is what
\* the last of them leaves, a call answered with an order was stored with its
\* own items, and a rejected call is rejected when run alone on that stock.
C33_CreatesSerializable ==
    /\ \A n \in 1..Len(orders) : SerialError(RequestedOf(n), StockAfter(n - 1)) = ""
    /\ stock = StockAfter(Len(orders))
    /\ \A w \in Workers :
          (Finished(w) /\ req[w].op = "create") =>
              /\ resp[w].status = HTTP_201_CREATED =>
                    /\ resp[w].order_id \in 1..Len(orders)
                    /\ RequestedOf(resp[w].order_id) = req[w].items
              /\ resp[w].error \in {"not_found", "business_rule_violation",
                                    "insufficient_stock"} =>
                    SerialError(req[w].items, stock) # ""

\* two calls over products 1 and 2 ran together: the one that committed took
\* 4 of each and the other, asking for 8 of product 2, was rejected
C33_Witness ==
    \E w1, w2 \in Workers :
        /\ w1 # w2 /\ nreq = 2
        /\ Finished(w1) /\ Finished(w2)
        /\ req[w1].items = <<Item(1, 4), Item(2, 4)>>
        /\ req[w2].items = <<Item(1, 4), Item(2, 8)>>
        /\ resp[w1].status = HTTP_201_CREATED
        /\ resp[w2].error = "insufficient_stock"
        /\ Len(orders) = 1
        /\ stock = [p \in Products |-> InitStock[p] - 4]

\* the item list names some product more than once
NamesProductTwice(items) ==
    \E i, j \in 1..Len(items) : i # j /\ items[i].product_id = items[j].product_id

\* C34: when the item list of a CreateOrder names the same product more than
\* once, the checks and deductions accumulate on one locked snapshot: the
\* call commits only if the sum of the quantities requested of each product
\* does not exceed its stock, the commit reduces the stock by that sum, and
\* a call whose products are all active but whose sum exceeds the stock ends
\* with InsufficientStock, the stock unchanged and nothing stored.
C34_RepeatedProductAccumulates ==
    [][\A w \in Workers :
        (req[w].op = "create" /\ NamesProductTwice(req[w].items)) =>
            /\ CreateCommits(w) =>
                  \A p \in Products :
                      /\ QtyOf(req[w].items, p) <= stock[p]
                      /\ stock'[p] = stock[p] - QtyOf(req[w].items, p)
            /\ (/\ pc[w] = "items" /\ Steps(w)
                /\ \A i \in 1..Len(req[w].items) :
                      product_map[w][req[w].items[i].product_id].is_active
                /\ \E p \in Products : QtyOf(req[w].items, p) > stock[p]) =>
                  /\ ~CreateCommits(w)
                  /\ pc'[w] = "idle" =>
                        /\ resp'[w] = ErrorResponse(HTTP_422_UNPROCESSABLE_ENTITY,
                                                    "insufficient_stock")
                        /\ UNCHANGED <<stock, orders, history>>
                        /\ \A p \in Products : lock'[p] # w]_vars

\* an order of 8 and then 4 units of product 1 was rejected on stock 10: the
\* first item passed, the second found 2 left; nothing was stored and the
\* stock is still 10
C34_Witness ==
    \E w \in Workers :
        /\ Finished(w)
        /\ req[w].items = <<Item(1, 8), Item(1, 4)>>
        /\ resp[w].error = "insufficient_stock"
        /\ orders = <<>>
        /\ stock = InitStock

\* the entry under the key of worker w's request was not stored for this
\* request: it answers another endpoint, or an order of other items
ForeignEntry(w) ==
    LET cached == cache[req[w].key]
    IN  /\ cached # NoResponse
        /\ \/ req[w].op = "cancel" /\ cached.status = HTTP_201_CREATED
           \/ req[w].op = "create" /\ cached.status = HTTP_200_OK
           \/ /\ req[w].op = "create"
              /\ cached.order_id \in 1..Len(orders)
              /\ RequestedOf(cached.order_id) # req[w].items

\* C35: the gate's decision depends only on the key: a POST request whose
\* key has an unexpired cached result gets that result and its own operation
\* is not executed, even when its path or payload differs from those of the
\* request that stored the result; a cancellation reusing the key of a
\* creation leaves the order uncancelled and the stock unrestored.
C35_GateDependsOnKeyOnly ==
    [][\A w \in Workers :
          (AtGate(w) /\ ForeignEntry(w)) =>
              /\ pc'[w] = "idle"
              /\ resp'[w] = cache[req[w].key]
              /\ txWrites'[w] = EmptyWrites
              /\ UNCHANGED <<stock, orders, history, events, lock, cache>>]_vars

\* a cancellation of order 1 sent with the key of the request that created
\* it was answered with the creation's response: the order is still pending
\* and its 4 units are still taken
C35_Witness ==
    \E w \in Workers :
        /\ Finished(w)
        /\ req[w].op = "cancel" /\ req[w].order_id = 1 /\ req[w].key = "k1"
        /\ resp[w].status = HTTP_201_CREATED /\ resp[w].order_id = 1
        /\ orders[1].key = "k1"
        /\ orders[1].status = PENDING
        /\ history[1] = HistoryOf(<<PENDING>>)
        /\ stock[1] = InitStock[1] - QtyOf(orders[1].items, 1)

\* worker w's request is a creation whose key was used before (an order
\* created under the key is stored) and has no cache entry any more
KeyExpired(w) ==
    /\ req[w].op = "create" /\ req[w].key \in Keys
    /\ cache[req[w].key] = NoResponse
    /\ \E o \in 1..Len(orders) : orders[o].key = req[w].key

====
